---- MODULE Spec2Model ----
(***************************************************************************)
(* Model of experiments/spider_dg/bayesian_meta_train.py:                  *)
(* BayesianMetaTrainer.load_train_config, load_optimizer and step, driven  *)
(* by the training loop of the base trainer (one step per step index).     *)
(*                                                                         *)
(* Python's None is modelled by the empty tuple and a set value v by the   *)
(* one-element tuple <<v>>, so that None and the empty list stay distinct. *)
(***************************************************************************)
EXTENDS Integers, Sequences, FiniteSets, TLC

\* ---------------------------------------------------------------- bounds
NumParams == 2      \* number of parameters of the model
MaxAccum == 2       \* largest configured num_batch_accumulated
MaxStep == 2        \* the training loop runs the steps 0..MaxStep
MaxReport == 2      \* largest configured report_every_n
MaxLoss == 2        \* losses returned by meta_train are 1..MaxLoss
MaxClip == 1        \* configured clip_grad is None or 0..MaxClip
MaxLr == 2          \* learning rates are 1..MaxLr
MaxGrad == 2        \* gradient magnitudes saturate at MaxGrad

None == <<>>
Some(v) == <<v>>
Val(o) == o[1]

Params == 1..NumParams
Lrs == 1..MaxLr
Losses == 1..MaxLoss
Min(a, b) == IF a < b THEN a ELSE b

\* The configurations the caller can supply (config["bayesian_meta_train"]).
Configs ==
    [num_batch_accumulated : 0..MaxAccum,
     use_bert_training : BOOLEAN,
     clip_grad : {None} \cup {Some(c) : c \in 0..MaxClip},
     report_every_n : 1..MaxReport,
     inner_lr : {3}]

VARIABLES
    config,         \* the configuration handed to the trainer
    requires_grad,  \* model: parameter -> is it trainable
    grad,           \* model: parameter -> None or Some(gradient magnitude)
    train_config,   \* self.train_config: None or Some(config record)
    logs,           \* messages written by load_train_config
    maml_trainer,   \* has the BMAML trainer been constructed
    optimizer,      \* None or Some([param_groups |-> sequence of groups])
    lr_scheduler,   \* None or Some([list |-> ..., groups |-> ...])
    bert_params,    \* load_optimizer: None or Some(get_bert_parameters())
    non_bert_params,\* load_optimizer: None or Some(get_non_bert_parameters())
    pc,             \* position of the trainer
    exc,            \* the exception that ended the run, or "none"
    last_step,      \* step index of the training loop
    i,              \* number of finished accumulation iterations
    task,           \* the task get_batch returned last: None or Some(id)
    loss,           \* local variable loss of step: None while unbound
    sched_ret,      \* value returned by lr_scheduler.update_lr
    outer_lr,       \* local variable outer_lr of step
    calls,          \* external calls made by the current step, in order
    emitted         \* wandb.log calls made by the current step, in order

vars == <<config, requires_grad, grad, train_config, logs, maml_trainer,
          optimizer, lr_scheduler, bert_params, non_bert_params, pc, exc,
          last_step, i, task, loss, sched_ret, outer_lr, calls, emitted>>

modelVars == <<config, requires_grad>>
stepLocals == <<i, task, loss, sched_ret, outer_lr, calls, emitted>>
subsetVars == <<bert_params, non_bert_params>>

TC == Val(train_config)
Opt == Val(optimizer)
Sched == Val(lr_scheduler)

\* ------------------------------------------------------------- the model
\* model.parameters() and model.get_trainable_parameters()
AllParameters == Params
TrainableParameters == {p \in Params : requires_grad[p]}

Init ==
    /\ config \in Configs
    /\ requires_grad \in [Params -> BOOLEAN]
    /\ grad = [p \in Params |-> None]
    /\ train_config = None
    /\ logs = <<>>
    /\ maml_trainer = FALSE
    /\ optimizer = None
    /\ lr_scheduler = None
    /\ bert_params = None
    /\ non_bert_params = None
    /\ pc = "init"
    /\ exc = "none"
    /\ last_step = 0
    /\ i = 0
    /\ task = None
    /\ loss = None
    /\ sched_ret = None
    /\ outer_lr = None
    /\ calls = <<>>
    /\ emitted = <<>>

\* ----------------------------------------------------- load_train_config
WarnAccum == [level |-> "warn",
              msg |-> "Batch accumulation is used only at MAML-step level"]
InfoClip == [level |-> "info",
             msg |-> "Gradient clipping is recommended for BERT training"]

TrainConfigMessagesClipFalsy(c) ==
    (IF c.num_batch_accumulated > 1 THEN <<WarnAccum>> ELSE <<>>)
    \o (IF c.use_bert_training
           /\ (c.clip_grad = None \/ c.clip_grad = Some(0))
        THEN <<InfoClip>> ELSE <<>>)

TrainConfigMessages(c) ==
    (IF c.num_batch_accumulated > 1 THEN <<WarnAccum>> ELSE <<>>)
    \o (IF c.use_bert_training /\ c.clip_grad = None
        THEN <<InfoClip>> ELSE <<>>)

LoadTrainConfig ==
    /\ pc = "init"
    /\ train_config' = Some(config)
    /\ logs' = logs \o TrainConfigMessages(config)
    /\ pc' = "configured"
    /\ UNCHANGED <<modelVars, grad, maml_trainer, optimizer, lr_scheduler,
                   subsetVars, exc, last_step, stepLocals>>

\* -------------------------------------------------------- load_optimizer
\* The two assertions of the transformer branch.
PartitionAssertsTrainable(bp, nbp) ==
    /\ Cardinality(nbp) + Cardinality(bp)
         = Cardinality(TrainableParameters)
    /\ Cardinality(bp) > 0

PartitionAsserts(bp, nbp) ==
    /\ Cardinality(nbp) + Cardinality(bp)
         = Cardinality(AllParameters)
    /\ Cardinality(bp) > 0

\* registry.construct("optimizer", ...): the optimizer of the transformer
\* branch holds the non-transformer group and then the transformer group,
\* the optimizer of the other branch one undivided group.
BertOptimizer(bp, nbp) ==
    [param_groups |-> << [params |-> nbp, lr |-> MaxLr],
                         [params |-> bp, lr |-> 1] >>]

PlainOptimizer(params) ==
    [param_groups |-> << [params |-> params, lr |-> MaxLr] >>]

GroupIndices(opt) == [k \in 1..Len(opt.param_groups) |-> k]

\* A scheduler is bound to a list object (list) holding group objects
\* (groups, named by their position in optimizer.param_groups).
\* The scheduler each branch constructs first:
BranchScheduler(opt, use_bert) ==
    IF use_bert
    THEN [list |-> "[non_bert_param_group, bert_param_group]",
          groups |-> <<1, 2>>]
    ELSE [list |-> "optimizer.param_groups", groups |-> GroupIndices(opt)]

\* The scheduler load_optimizer returns: constructed again after the branch.
ReturnedSchedulerOfBranch(opt, branch_sched) == branch_sched

ReturnedScheduler(opt, branch_sched) ==
    [list |-> "optimizer.param_groups", groups |-> GroupIndices(opt)]

LoadOptimizerBert ==
    /\ pc = "configured"
    /\ TC.use_bert_training
    /\ maml_trainer' = TRUE
    /\ \E bp \in SUBSET Params, nbp \in SUBSET Params :
         /\ bert_params' = Some(bp)
         /\ non_bert_params' = Some(nbp)
         /\ IF PartitionAsserts(bp, nbp)
            THEN LET opt == BertOptimizer(bp, nbp) IN
                 /\ optimizer' = Some(opt)
                 /\ lr_scheduler' =
                      Some(ReturnedScheduler(opt, BranchScheduler(opt, TRUE)))
                 /\ pc' = "train"
                 /\ exc' = exc
            ELSE /\ pc' = "raised"
                 /\ exc' = "AssertionError"
                 /\ UNCHANGED <<optimizer, lr_scheduler>>
    /\ UNCHANGED <<modelVars, grad, train_config, logs, last_step,
                   stepLocals>>

LoadOptimizerPlain ==
    /\ pc = "configured"
    /\ ~TC.use_bert_training
    /\ maml_trainer' = TRUE
    /\ LET opt == PlainOptimizer(TrainableParameters) IN
         /\ optimizer' = Some(opt)
         /\ lr_scheduler' =
              Some(ReturnedScheduler(opt, BranchScheduler(opt, FALSE)))
    /\ pc' = "train"
    /\ UNCHANGED <<modelVars, grad, train_config, logs, subsetVars, exc,
                   last_step, stepLocals>>

LoadOptimizer == LoadOptimizerBert \/ LoadOptimizerPlain

\* ------------------------------------------------------------------ step
\* An external call: its name, its argument, and (clip_grad_norm_) the
\* threshold passed or (meta_train) the loss returned; 0 otherwise.
Call(op, arg, val) == [op |-> op, arg |-> arg, val |-> val]

\* Python truth value of an optional number: None and 0 are false.
Truthy(o) == o # None /\ Val(o) # 0

\* lines 116-118: a parameter without gradient gets an all-zero one.
ZeroedGradNever(g) == g

ZeroedGrad(g) == IF g = None THEN Some(0) ELSE g

\* range(num_batch_accumulated): is there an iteration number k (from 0)?
InRangeInclusive(k, n) == k <= n

InRange(k, n) == k < n

\* Where control goes when a call inside the with-block raises: step has no
\* try/except, the exception leaves step.
OnExceptionSwallowed == "loop"

OnException == "raised"

\* line 135: the condition under which gradients are clipped.
ClipEnabledByThresholdOnly(c) == Truthy(c.clip_grad)

ClipEnabled(c) == Truthy(c.clip_grad) /\ c.use_bert_training

\* lines 146-147: the learning rates step reports.
GroupLrs(opt) == [k \in 1..Len(opt.param_groups) |-> opt.param_groups[k].lr]

OuterLrFromGroups(ret, opt) == Some(GroupLrs(opt))

OuterLr(ret, opt) == IF ret = None THEN Some(GroupLrs(opt)) ELSE ret

\* line 151: the reporting cadence.
OnCadence(step, n) == step % n = 0

\* The parameters held by the optimizer's groups.
OptimizerParams(opt) ==
    UNION {opt.param_groups[k].params : k \in 1..Len(opt.param_groups)}

StepBegin ==
    /\ pc = "train"
    /\ grad' = [p \in AllParameters |-> ZeroedGrad(grad[p])]
    /\ i' = 0
    /\ task' = None
    /\ loss' = None
    /\ sched_ret' = None
    /\ outer_lr' = None
    /\ calls' = <<>>
    /\ emitted' = <<>>
    /\ pc' = "loop"
    /\ UNCHANGED <<modelVars, train_config, logs, maml_trainer, optimizer,
                   lr_scheduler, subsetVars, exc, last_step>>

GetBatch ==
    /\ pc = "loop"
    /\ InRange(i, TC.num_batch_accumulated)
    /\ calls' = Append(calls, Call("get_batch", last_step, 0))
    /\ \/ /\ task' = Some(i + 1)
          /\ pc' = "meta_train"
          /\ exc' = exc
       \/ /\ task' = task
          /\ pc' = OnException
          /\ exc' = "get_batch"
    /\ UNCHANGED <<modelVars, grad, train_config, logs, maml_trainer,
                   optimizer, lr_scheduler, subsetVars, last_step, i, loss,
                   sched_ret, outer_lr, emitted>>

\* meta_train accumulates into the gradients of the trainable parameters.
Accumulated(g) == IF g = None THEN Some(1) ELSE Some(Min(Val(g) + 1, MaxGrad))

MetaTrain ==
    /\ pc = "meta_train"
    /\ \/ \E l \in Losses :
            /\ calls' = Append(calls, Call("meta_train", Val(task), l))
            /\ loss' = Some(l)
            /\ grad' = [p \in Params |->
                          IF requires_grad[p] THEN Accumulated(grad[p])
                          ELSE grad[p]]
            /\ i' = i + 1
            /\ pc' = "loop"
            /\ exc' = exc
       \/ /\ calls' = Append(calls, Call("meta_train", Val(task), 0))
          /\ pc' = OnException
          /\ exc' = "meta_train"
          /\ UNCHANGED <<loss, grad, i>>
    /\ UNCHANGED <<modelVars, train_config, logs, maml_trainer, optimizer,
                   lr_scheduler, subsetVars, last_step, task, sched_ret,
                   outer_lr, emitted>>

\* clip_grad_norm_ bounds the gradients of one group by the threshold.
ClipCalls(opt, thr) ==
    [k \in 1..Len(opt.param_groups) |-> Call("clip_grad_norm_", k, thr)]

ClipGrad ==
    /\ pc = "loop"
    /\ ~InRange(i, TC.num_batch_accumulated)
    /\ IF ClipEnabled(TC)
       THEN /\ calls' = calls \o ClipCalls(Opt, Val(TC.clip_grad))
            /\ grad' = [p \in Params |->
                          IF p \in OptimizerParams(Opt) /\ grad[p] # None
                          THEN Some(Min(Val(grad[p]), Val(TC.clip_grad)))
                          ELSE grad[p]]
       ELSE UNCHANGED <<calls, grad>>
    /\ pc' = "optimizer_step"
    /\ UNCHANGED <<modelVars, train_config, logs, maml_trainer, optimizer,
                   lr_scheduler, subsetVars, exc, last_step, i, task, loss,
                   sched_ret, outer_lr, emitted>>

\* optimizer.step() then optimizer.zero_grad(); zero_grad either zeroes the
\* gradients of the optimizer's parameters or sets them to None.
OptimizerStep ==
    /\ pc = "optimizer_step"
    /\ calls' = calls \o <<Call("optimizer.step", 0, 0),
                           Call("optimizer.zero_grad", 0, 0)>>
    /\ \E set_to_none \in BOOLEAN :
         grad' = [p \in Params |->
                    IF p \in OptimizerParams(Opt)
                    THEN (IF set_to_none THEN None ELSE Some(0))
                    ELSE grad[p]]
    /\ pc' = "update_lr"
    /\ UNCHANGED <<modelVars, train_config, logs, maml_trainer, optimizer,
                   lr_scheduler, subsetVars, exc, last_step, i, task, loss,
                   sched_ret, outer_lr, emitted>>

\* lr_scheduler.update_lr(last_step) may set the rate of the groups it is
\* bound to, and returns None or a list of rates.
WithLr(opt, groups, new_lr) ==
    [param_groups |->
       [k \in 1..Len(opt.param_groups) |->
          IF new_lr # None /\ \E j \in 1..Len(groups) : groups[j] = k
          THEN [opt.param_groups[k] EXCEPT !.lr = Val(new_lr)]
          ELSE opt.param_groups[k]]]

UpdateLr ==
    /\ pc = "update_lr"
    /\ calls' = Append(calls, Call("lr_scheduler.update_lr", last_step, 0))
    /\ \E new_lr \in {None} \cup {Some(v) : v \in Lrs},
          ret \in {None}
                  \cup {Some([k \in 1..Len(Opt.param_groups) |-> v]) :
                          v \in Lrs} :
         LET opt == WithLr(Opt, Sched.groups, new_lr) IN
         /\ optimizer' = Some(opt)
         /\ sched_ret' = ret
         /\ outer_lr' = OuterLr(ret, opt)
    /\ pc' = "report"
    /\ UNCHANGED <<modelVars, grad, train_config, logs, maml_trainer,
                   lr_scheduler, subsetVars, exc, last_step, i, task, loss,
                   emitted>>

Metric(name, idx, value, step) ==
    [name |-> name, idx |-> idx, value |-> value, step |-> step]

\* lines 151-157; reading the unbound local loss raises UnboundLocalError
\* in the first logger call, before anything is emitted.
Report ==
    /\ pc = "report"
    /\ IF OnCadence(last_step, TC.report_every_n)
       THEN IF loss = None
            THEN /\ pc' = "raised"
                 /\ exc' = "UnboundLocalError"
                 /\ emitted' = emitted
            ELSE /\ emitted' =
                      <<Metric("train_loss", -1, Val(loss), last_step),
                        Metric("inner_lr", -1, TC.inner_lr, last_step)>>
                      \o [k \in 1..Len(Val(outer_lr)) |->
                            Metric("outer_lr", k - 1, Val(outer_lr)[k],
                                   last_step)]
                 /\ pc' = "returned"
                 /\ exc' = exc
       ELSE /\ pc' = "returned"
            /\ UNCHANGED <<exc, emitted>>
    /\ UNCHANGED <<modelVars, grad, train_config, logs, maml_trainer,
                   optimizer, lr_scheduler, subsetVars, last_step, i, task,
                   loss, sched_ret, outer_lr, calls>>

\* The training loop of the base trainer calls step once per step index.
NextStep ==
    /\ pc = "returned"
    /\ last_step < MaxStep
    /\ last_step' = last_step + 1
    /\ pc' = "train"
    /\ UNCHANGED <<modelVars, grad, train_config, logs, maml_trainer,
                   optimizer, lr_scheduler, subsetVars, exc, stepLocals>>

Next ==
    \/ LoadTrainConfig
    \/ LoadOptimizer
    \/ StepBegin
    \/ GetBatch
    \/ MetaTrain
    \/ ClipGrad
    \/ OptimizerStep
    \/ UpdateLr
    \/ Report
    \/ NextStep

Spec == Init /\ [][Next]_vars

\* ---------------------------------------------------------------- claims
Configured == train_config # None
StepCallsDone == pc \in {"report", "returned"}
\* step has ended without get_batch or meta_train raising
StepEnded == pc = "returned" \/ (pc = "raised" /\ exc = "UnboundLocalError")

IsClip(c) == c.op = "clip_grad_norm_"
NotClip(c) == c.op # "clip_grad_norm_"
OpsNamed(op) == {k \in 1..Len(calls) : calls[k].op = op}

\* The N accumulation rounds: get_batch(step), then meta_train on the task
\* that get_batch returned (the k-th task of the step), whatever the loss.
IsRounds(cs, n, step) ==
    /\ Len(cs) = 2 * n
    /\ \A k \in 1..n :
         /\ cs[2 * k - 1] = Call("get_batch", step, 0)
         /\ cs[2 * k].op = "meta_train"
         /\ cs[2 * k].arg = k

StepTail(step) ==
    <<Call("optimizer.step", 0, 0), Call("optimizer.zero_grad", 0, 0),
      Call("lr_scheduler.update_lr", step, 0)>>

\* C1: a step with num_batch_accumulated = N >= 1 whose calls all return
\* makes exactly N rounds of (get_batch for the step index, meta_train on
\* that task), then one optimizer.step, one optimizer.zero_grad and one
\* lr_scheduler.update_lr for the same step index; clipping calls lie after
\* the last meta_train and before optimizer.step, and optimizer.step is
\* never called before all N rounds are done.
C1_StepCallOrder ==
    (Configured /\ TC.num_batch_accumulated >= 1) =>
      LET n == TC.num_batch_accumulated
          plain == SelectSeq(calls, NotClip)
      IN
      /\ StepCallsDone =>
           /\ Len(plain) = 2 * n + 3
           /\ IsRounds(SubSeq(plain, 1, 2 * n), n, last_step)
           /\ SubSeq(plain, 2 * n + 1, 2 * n + 3) = StepTail(last_step)
      /\ \A k \in 1..Len(calls) :
           IsClip(calls[k]) =>
             /\ k > 2 * n
             /\ \A j \in OpsNamed("optimizer.step") : k < j
      /\ \A j \in OpsNamed("optimizer.step") :
           Cardinality({k \in OpsNamed("meta_train") : k < j}) = n

C1_Witness ==
    /\ pc = "returned"
    /\ TC.num_batch_accumulated >= 2
    /\ \E k \in 1..Len(calls) : IsClip(calls[k])

SubsetSum == Cardinality(Val(non_bert_params)) + Cardinality(Val(bert_params))

\* C2 as stated: with transformer-style training, load_optimizer returns
\* only if the subset sizes sum to the number of TRAINABLE parameters and
\* the transformer subset is non-empty, and otherwise fails by assertion
\* with no optimizer or scheduler constructed; without transformer-style
\* training no check is made.
C2_AssertsAgainstTrainableCount ==
    (pc \notin {"init", "configured"}) =>
      IF TC.use_bert_training
      THEN IF SubsetSum = Cardinality(TrainableParameters)
              /\ Cardinality(Val(bert_params)) > 0
           THEN optimizer # None /\ lr_scheduler # None
           ELSE /\ exc = "AssertionError"
                /\ optimizer = None
                /\ lr_scheduler = None
      ELSE exc # "AssertionError" /\ bert_params = None

\* C2 amended: the sizes are compared with the number of ALL parameters of
\* the model (len(list(model.parameters()))), trainable or not.
C2_AssertsAgainstParameterCount ==
    (pc \notin {"init", "configured"}) =>
      IF TC.use_bert_training
      THEN IF SubsetSum = Cardinality(AllParameters)
              /\ Cardinality(Val(bert_params)) > 0
           THEN optimizer # None /\ lr_scheduler # None
           ELSE /\ exc = "AssertionError"
                /\ optimizer = None
                /\ lr_scheduler = None
      ELSE exc # "AssertionError" /\ bert_params = None

C2_Witness ==
    /\ pc = "train"
    /\ TC.use_bert_training
    /\ optimizer # None
    /\ TrainableParameters # AllParameters

ClipsMade == SelectSeq(calls, IsClip)
AfterClip == pc \in {"optimizer_step", "update_lr", "report", "returned"}

\* C3 as stated: whenever a clip threshold is configured, step clips every
\* optimizer parameter group once to that threshold before the optimizer
\* step, and whenever none is configured it makes no clipping call.
\* (A threshold of 0 is left open: nothing is required of it here.)
C3_ClipWheneverThresholdConfigured ==
    (Configured /\ AfterClip) =>
      /\ Truthy(TC.clip_grad) =>
           ClipsMade = ClipCalls(Opt, Val(TC.clip_grad))
      /\ TC.clip_grad = None => ClipsMade = <<>>
      /\ \A k \in OpsNamed("clip_grad_norm_") :
           \A j \in OpsNamed("optimizer.step") : k < j

\* C3 amended: step clips exactly when the threshold is truthy (neither
\* None nor 0) AND transformer-style training is enabled; then every
\* optimizer parameter group is clipped once, in group order, to the
\* threshold before the optimizer step; otherwise no clipping call is made.
C3_ClipWhenThresholdAndBert ==
    (Configured /\ AfterClip) =>
      /\ IF TC.clip_grad # None /\ Val(TC.clip_grad) # 0
            /\ TC.use_bert_training
         THEN ClipsMade = ClipCalls(Opt, Val(TC.clip_grad))
         ELSE ClipsMade = <<>>
      /\ \A k \in OpsNamed("clip_grad_norm_") :
           \A j \in OpsNamed("optimizer.step") : k < j

C3_Witness ==
    /\ pc = "update_lr"
    /\ Len(ClipsMade) = 2
    /\ TC.num_batch_accumulated >= 1

\* C4: the scheduler load_optimizer returns is bound to the param_groups
\* list of the optimizer returned with it, holding all of its groups in
\* order: two groups in the transformer branch, one in the undivided one.
C4_SchedulerBoundToOptimizerGroups ==
    /\ (optimizer = None) <=> (lr_scheduler = None)
    /\ lr_scheduler # None =>
         /\ Sched.list = "optimizer.param_groups"
         /\ Sched.groups = [k \in 1..Len(Opt.param_groups) |-> k]
         /\ Len(Opt.param_groups) = IF TC.use_bert_training THEN 2 ELSE 1

C4_Witness ==
    /\ lr_scheduler # None
    /\ TC.use_bert_training
    /\ Len(Sched.groups) = 2

\* C5: after the learning-rate update, outer_lr is the value update_lr
\* returned when that is not None, and otherwise the list of the current
\* lr of each optimizer group, in group order.
C5_OuterLrFallback ==
    StepCallsDone =>
      /\ sched_ret # None => outer_lr = sched_ret
      /\ sched_ret = None =>
           /\ outer_lr # None
           /\ Len(Val(outer_lr)) = Len(Opt.param_groups)
           /\ \A k \in 1..Len(Opt.param_groups) :
                Val(outer_lr)[k] = Opt.param_groups[k].lr

C5_Witness ==
    /\ pc = "report"
    /\ sched_ret = None
    /\ Len(Opt.param_groups) = 2
    /\ Opt.param_groups[1].lr # Opt.param_groups[2].lr

C5_WitnessReturned ==
    /\ pc = "report"
    /\ sched_ret # None
    /\ Val(sched_ret) # GroupLrs(Opt)

\* C6 as stated: a step (whose get_batch and meta_train calls return)
\* emits exactly when the step index is a multiple of report_every_n: then
\* one train_loss, one inner_lr and one outer_lr_<i> per outer learning
\* rate, all keyed by the step index and all after the optimizer step and
\* the learning-rate update; on any other step nothing.
C6_EmitsExactlyOnCadence ==
    /\ StepEnded =>
         IF last_step % TC.report_every_n = 0
         THEN /\ outer_lr # None
              /\ Len(emitted) = 2 + Len(Val(outer_lr))
              /\ emitted[1].name = "train_loss"
              /\ emitted[2].name = "inner_lr"
              /\ \A k \in 1..Len(Val(outer_lr)) :
                   /\ emitted[2 + k].name = "outer_lr"
                   /\ emitted[2 + k].idx = k - 1
              /\ \A k \in 1..Len(emitted) : emitted[k].step = last_step
         ELSE emitted = <<>>
    /\ emitted # <<>> =>
         /\ OpsNamed("optimizer.step") # {}
         /\ OpsNamed("lr_scheduler.update_lr") # {}

\* C9: once get_batch or meta_train has raised, step is left with the
\* exception and has made no clipping call, no optimizer.step, no
\* optimizer.zero_grad, no learning-rate update and no metric emission.
C9_RaisePropagates ==
    exc \in {"get_batch", "meta_train"} =>
      /\ pc = "raised"
      /\ \A k \in 1..Len(calls) :
           calls[k].op \in {"get_batch", "meta_train"}
      /\ emitted = <<>>

C9_Witness ==
    /\ exc = "meta_train"
    /\ pc = "raised"
    /\ i = 1

LastOf(S) == CHOOSE k \in S : \A j \in S : j <= k

\* C10 as stated: on every reporting step (whose get_batch and meta_train
\* calls return) the emitted loss is defined and is the loss the last
\* meta_train call of that step returned, for every num_batch_accumulated
\* including 0.
C10_EmittedLossIsLastLoss ==
    (StepEnded /\ last_step % TC.report_every_n = 0) =>
      /\ \E k \in 1..Len(emitted) : emitted[k].name = "train_loss"
      /\ \A k \in 1..Len(emitted) :
           emitted[k].name = "train_loss" =>
             /\ OpsNamed("meta_train") # {}
             /\ emitted[k].value = calls[LastOf(OpsNamed("meta_train"))].val

\* C7: load_train_config sets train_config for every configuration, with a
\* warning exactly when num_batch_accumulated > 1 and the recommendation
\* exactly when transformer-style training is on and clip_grad is None.
C7_ConfigNeverRejected ==
    /\ pc = "init" => (train_config = None /\ logs = <<>>)
    /\ pc # "init" =>
         /\ train_config = Some(config)
         /\ pc = "configured" => exc = "none"
         /\ (\E k \in 1..Len(logs) : logs[k] = WarnAccum)
              <=> config.num_batch_accumulated > 1
         /\ (\E k \in 1..Len(logs) : logs[k] = InfoClip)
              <=> (config.use_bert_training /\ config.clip_grad = None)
         /\ Len(logs) = (IF config.num_batch_accumulated > 1 THEN 1 ELSE 0)
                        + (IF config.use_bert_training
                              /\ config.clip_grad = None THEN 1 ELSE 0)

C7_Witness ==
    /\ pc = "configured"
    /\ Len(logs) = 2

C7_WitnessQuiet ==
    /\ pc = "configured"
    /\ config.use_bert_training
    /\ config.clip_grad = Some(0)
    /\ logs = <<>>

\* C8: whenever meta_train is about to be called every parameter has a
\* gradient, and the pass at the start of step gives an all-zero gradient
\* to each parameter without one and leaves every other gradient as it is.
C8_GradsSetBeforeMetaTrain ==
    /\ [](pc = "meta_train" => \A p \in Params : grad[p] # None)
    /\ [][(pc = "train" /\ pc' = "loop") =>
            \A p \in Params :
              grad'[p] = IF grad[p] = None THEN Some(0) ELSE grad[p]]_vars

C8_Witness ==
    /\ pc = "meta_train"
    /\ i = 0
    /\ last_step >= 1
    /\ \E p \in Params : grad[p] # None /\ Val(grad[p]) > 0
    /\ \E p \in Params : grad[p] = Some(0)

====
